---- MODULE Spec2Model ----
(***************************************************************************)
(* Booking conflict and lifecycle engine of the vehicle rental backend.    *)
(*                                                                         *)
(* The persistence store is modelled as three collections: `vehicles`      *)
(* (Vehicle documents), `bookings` and `reviews` (Booking and Review       *)
(* documents, the document _id is the position in the sequence), next to   *)
(* the request handlers in flight.  A handler is split at an `await`       *)
(* wherever another request can run between a read it made and a write     *)
(* that depends on it.                                                     *)
(*                                                                         *)
(* Instants are hours and the clock of the server does not advance.        *)
(* Fields that no handler ever reads back (pickupLocation,                 *)
(* dropoffLocation, specialRequests, adminNotes, paymentStatus,            *)
(* timestamps) are not part of the state.                                  *)
(***************************************************************************)
EXTENDS Integers, Sequences, FiniteSets, TLC

\* ------------------------------------------------------------------------
\* Bounds of the model
\* ------------------------------------------------------------------------
\* bookings stored plus createBooking requests in flight
MaxBookings == 2

\* at most MaxReviews reviews are ever inserted
MaxReviews == 3

\* the clock of the server (new Date()) stands at Now
Now == 0

\* <<startDate, endDate>> a createBooking body may name: 25 hours, the 72
\* hours that follow, a start that is not in the future, an end before the start
RequestDates == {<<24, 49>>, <<49, 121>>, <<0, 24>>, <<49, 24>>}

\* the valid <<startDate, endDate>> over the instants 24, 49 and 121
StoredDates == {<<24, 49>>, <<49, 121>>, <<24, 121>>}

Customers == {"u1", "u2"}
Admins == {"admin"}
Users == Customers \cup Admins

VehicleIds == {"v1", "v2"}
CreateProcs == {"c1", "c2"}

\* the createReview requests that may be in flight at the same time
ReviewProcs == {"r1", "r2"}

\* req.body.cancellationReason: absent (undefined) or a text
NoReason == "undefined"
Reasons == {NoReason, "plans changed"}

\* ------------------------------------------------------------------------
\* Program constants
\* ------------------------------------------------------------------------
\* 1000 * 3600 * 24 milliseconds, in hours
DayLen == 24

Statuses == {"pending", "approved", "rejected", "active", "completed", "cancelled"}

\* status: { $in: ['approved', 'active'] }
BlockingStatuses == {"approved", "active"}

\* ['pending', 'approved'].includes(booking.status)
CancellableWide == {"pending", "approved", "active"}
CancellableStatuses == {"pending", "approved"}

Role(u) == IF u \in Admins THEN "admin" ELSE "user"

\* excludeBookingId = null
NoId == 0

\* no race between two createBooking requests on record
NoRace == {}

VARIABLES
    vehicles,   \* Vehicle collection: id -> document
    bookings,   \* Booking collection: the _id of a document is its position
    creq,       \* createBooking handlers: position and locals
    xreq,       \* the cancelBooking handler: position and locals
    response,   \* what the last step sent to its client, NoResponse if nothing
    raceStart,  \* history: {Len(bookings)} when the two createBooking requests
                \* now on record came to be in flight together with the same
                \* vehicle and dates, NoRace otherwise
    avail,      \* the last direct call of Booking.checkAvailability
    reviews,    \* Review collection: the _id of a document is its position,
                \* NoReview where findByIdAndDelete removed the document
    rreq,       \* createReview handlers: position and locals
    rollup      \* the calcAverageRating call that the post('save') hook of
                \* each createReview handler started: position and locals

vars == <<vehicles, bookings, creq, xreq, response, raceStart, avail,
          reviews, rreq, rollup>>

BookingIds == 1..Len(bookings)

\* ------------------------------------------------------------------------
\* Pure functions
\* ------------------------------------------------------------------------
\* Math.ceil(a / b) for a >= 0, b > 0
CeilRound(a, b) == (a + (b \div 2)) \div b
Ceil(a, b) == (a + b - 1) \div b

\* const days = Math.ceil(timeDiff / (1000 * 3600 * 24))
durationDaysFloor(startDate, endDate) == (endDate - startDate) \div DayLen
durationDays(startDate, endDate) == Ceil(endDate - startDate, DayLen)

\* const totalPrice = days * vehicle.pricePerDay
totalPriceOf(startDate, endDate, pricePerDay) ==
    durationDays(startDate, endDate) * pricePerDay

\* the documents matched by the query of checkAvailability
conflictingBookingsClosed(store, vehicleId, startDate, endDate, excludeBookingId) ==
    {i \in 1..Len(store) :
        /\ store[i].vehicleId = vehicleId
        /\ store[i].status \in BlockingStatuses
        /\ store[i].startDate <= endDate
        /\ store[i].endDate >= startDate
        /\ (excludeBookingId # NoId => i # excludeBookingId)}
conflictingBookings(store, vehicleId, startDate, endDate, excludeBookingId) ==
    {i \in 1..Len(store) :
        /\ store[i].vehicleId = vehicleId
        /\ store[i].status \in BlockingStatuses
        /\ store[i].startDate < endDate
        /\ store[i].endDate > startDate
        /\ (excludeBookingId # NoId => i # excludeBookingId)}

\* return !conflictingBooking
checkAvailabilityNoExclude(store, vehicleId, startDate, endDate, excludeBookingId) ==
    conflictingBookings(store, vehicleId, startDate, endDate, NoId) = {}
checkAvailability(store, vehicleId, startDate, endDate, excludeBookingId) ==
    conflictingBookings(store, vehicleId, startDate, endDate, excludeBookingId) = {}

\* bookingValidation: startDate > now, endDate > startDate
bookingValidationFromNow(startDate, endDate) ==
    /\ ~(startDate < Now)
    /\ ~(endDate <= startDate)
bookingValidation(startDate, endDate) ==
    /\ ~(startDate <= Now)
    /\ ~(endDate <= startDate)

\* the validators of bookingSchema.startDate and bookingSchema.endDate
schemaValidation(startDate, endDate) ==
    /\ startDate >= Now
    /\ endDate > startDate

\* req.user.role !== 'admin' && booking.userId.toString() !== req.user.id
notAuthorizedNever(u, booking) == FALSE
notAuthorized(u, booking) == Role(u) # "admin" /\ booking.userId # u

\* ------------------------------------------------------------------------
\* Responses: res.status(code).json({message}); `error` is the message of
\* the exception the catch block logged, "none" when the handler did not throw
\* ------------------------------------------------------------------------
NoResponse == [handler |-> "", code |-> 0, message |-> "", error |-> "none"]

Response(handler, code, message) ==
    [handler |-> handler, code |-> code, message |-> message, error |-> "none"]

CaughtResponse(handler, error, message) ==
    [handler |-> handler, code |-> 500, message |-> message, error |-> error]

IdleCreate == [pc |-> "idle", userId |-> "", vehicleId |-> "", startDate |-> 0,
               endDate |-> 0, pricePerDay |-> 0]

IdleCancel == [pc |-> "idle", id |-> NoId, cancellationReason |-> NoReason]

InFlight(p) == creq[p].pc # "idle"

\* two createBooking bodies that name the same vehicle and the same dates
SameRequest(r1, r2) ==
    /\ r1.vehicleId = r2.vehicleId
    /\ r1.startDate = r2.startDate
    /\ r1.endDate = r2.endDate

\* ------------------------------------------------------------------------
\* Initial state: the vehicles are listed, no booking, no request
\* ------------------------------------------------------------------------
\* the slot of a document that findByIdAndDelete removed
NoVehicle == [exists |-> FALSE, availability |-> FALSE, pricePerDay |-> 0,
              averageRating |-> 0, totalReviews |-> 0]

InitVehicles ==
    [v \in VehicleIds |->
        [exists |-> TRUE, availability |-> TRUE,
         pricePerDay |-> IF v = "v1" THEN 100 ELSE 150,
         averageRating |-> 0, totalReviews |-> 0]]

\* a createReview handler that is not running
IdleReview == [pc |-> "idle", userId |-> "", vehicleId |-> "", bookingId |-> NoId,
               rating |-> 0]

\* no calcAverageRating call under way; stats is the result of the
\* aggregate, an array of at most one group: the $avg of the ratings is
\* kept as the pair of their sum and numRatings.  fresh is history: no
\* review of the vehicle was written since the aggregate ran.
IdleRollup == [pc |-> "idle", vehicleId |-> "", stats |-> <<>>, fresh |-> FALSE]

NoProbe == [vehicleId |-> "", startDate |-> 0, endDate |-> 0,
            excludeBookingId |-> NoId, called |-> FALSE, result |-> FALSE]

Init ==
    /\ vehicles = InitVehicles
    /\ bookings = <<>>
    /\ creq = [p \in CreateProcs |-> IdleCreate]
    /\ xreq = IdleCancel
    /\ response = NoResponse
    /\ raceStart = NoRace
    /\ avail = NoProbe
    /\ reviews = <<>>
    /\ rreq = [p \in ReviewProcs |-> IdleReview]
    /\ rollup = [p \in ReviewProcs |-> IdleRollup]

\* ------------------------------------------------------------------------
\* createBooking
\* ------------------------------------------------------------------------
\* the early returns of createBooking: validationResult(req),
\* Vehicle.findById, vehicle.availability, Booking.checkAvailability;
\* NoResponse when the handler goes on to Booking.create
createBookingRejectionSwapped(v, s, e) ==
    IF ~bookingValidation(s, e)
      THEN Response("createBooking", 400, "Validation failed")
    ELSE IF ~vehicles[v].availability
      THEN Response("createBooking", 400, "Vehicle is not available")
    ELSE IF ~vehicles[v].exists
      THEN Response("createBooking", 404, "Vehicle not found")
    ELSE IF ~checkAvailability(bookings, v, s, e, NoId)
      THEN Response("createBooking", 400,
                    "Vehicle is not available for the selected dates")
    ELSE NoResponse
createBookingRejection(v, s, e) ==
    IF ~bookingValidation(s, e)
      THEN Response("createBooking", 400, "Validation failed")
    ELSE IF ~vehicles[v].exists
      THEN Response("createBooking", 404, "Vehicle not found")
    ELSE IF ~vehicles[v].availability
      THEN Response("createBooking", 400, "Vehicle is not available")
    ELSE IF ~checkAvailability(bookings, v, s, e, NoId)
      THEN Response("createBooking", 400,
                    "Vehicle is not available for the selected dates")
    ELSE NoResponse

\* createBooking up to the call of Booking.create.  The read of the vehicle
\* and the controller's checkAvailability are one step: the first reads only
\* `vehicles`, the second only `bookings`, so a request that runs between
\* them can be moved before the first or after the second.
createBookingCheck(p, u, v, s, e) ==
    /\ creq[p].pc = "idle"
    /\ Len(bookings) + Cardinality({q \in CreateProcs : InFlight(q)}) < MaxBookings
    /\ response' = createBookingRejection(v, s, e)
    /\ IF response' # NoResponse
         THEN UNCHANGED <<creq, raceStart>>
         ELSE /\ creq' = [creq EXCEPT ![p] =
                     [pc |-> "presave", userId |-> u, vehicleId |-> v, startDate |-> s,
                      endDate |-> e, pricePerDay |-> vehicles[v].pricePerDay]]
              /\ raceStart' =
                     IF \E q \in CreateProcs \ {p} :
                            InFlight(q) /\ SameRequest(creq'[p], creq[q])
                       THEN {Len(bookings)} ELSE NoRace
    /\ UNCHANGED <<vehicles, bookings, xreq, avail, reviews, rreq, rollup>>

\* Booking.create: the schema validators run, then the pre('save') hook
\* re-runs checkAvailability with the _id of the new document; an error of
\* either reaches the catch block of createBooking
createBookingPreSave(p) ==
    /\ creq[p].pc = "presave"
    /\ IF ~schemaValidation(creq[p].startDate, creq[p].endDate)
         THEN /\ creq' = [creq EXCEPT ![p] = IdleCreate]
              /\ response' = CaughtResponse("createBooking", "Booking validation failed",
                                            "Server error while creating booking")
       ELSE IF checkAvailability(bookings, creq[p].vehicleId, creq[p].startDate,
                                 creq[p].endDate, Len(bookings) + 1)
         THEN /\ creq' = [creq EXCEPT ![p].pc = "insert"]
              /\ response' = NoResponse
         ELSE /\ creq' = [creq EXCEPT ![p] = IdleCreate]
              /\ response' = CaughtResponse("createBooking",
                                            "Vehicle is not available for the selected dates",
                                            "Server error while creating booking")
    /\ UNCHANGED <<vehicles, bookings, xreq, raceStart, avail, reviews, rreq, rollup>>

\* Booking.create: the document is inserted, then res.status(201)
createBookingInsert(p) ==
    /\ creq[p].pc = "insert"
    /\ bookings' = Append(bookings,
            [userId |-> creq[p].userId,
             vehicleId |-> creq[p].vehicleId,
             startDate |-> creq[p].startDate,
             endDate |-> creq[p].endDate,
             totalPrice |-> totalPriceOf(creq[p].startDate, creq[p].endDate,
                                         creq[p].pricePerDay),
             status |-> "pending",
             cancellationReason |-> NoReason])
    /\ creq' = [creq EXCEPT ![p] = IdleCreate]
    /\ response' = Response("createBooking", 201, "created")
    /\ UNCHANGED <<vehicles, xreq, raceStart, avail, reviews, rreq, rollup>>

\* ------------------------------------------------------------------------
\* updateBookingStatus (admin only): findById, then findByIdAndUpdate.  A
\* booking is never deleted, so the lookup and the update act as one step.
\* ------------------------------------------------------------------------
updateBookingStatusByTable(id, status) ==
    /\ IF status \notin Statuses
         THEN /\ response' = Response("updateBookingStatus", 400, "Invalid status")
              /\ UNCHANGED bookings
       ELSE IF id \notin BookingIds
         THEN /\ response' = Response("updateBookingStatus", 404, "Booking not found")
              /\ UNCHANGED bookings
       ELSE IF bookings[id].status \in {"completed", "rejected", "cancelled"}
         THEN /\ response' = Response("updateBookingStatus", 400, "Invalid status")
              /\ UNCHANGED bookings
       ELSE /\ bookings' = [bookings EXCEPT ![id].status = status]
            /\ response' = Response("updateBookingStatus", 200, "updated")
    /\ UNCHANGED <<vehicles, creq, xreq, raceStart, avail, reviews, rreq, rollup>>
updateBookingStatus(id, status) ==
    /\ IF status \notin Statuses
         THEN /\ response' = Response("updateBookingStatus", 400, "Invalid status")
              /\ UNCHANGED bookings
       ELSE IF id \notin BookingIds
         THEN /\ response' = Response("updateBookingStatus", 404, "Booking not found")
              /\ UNCHANGED bookings
       ELSE /\ bookings' = [bookings EXCEPT ![id].status = status]
            /\ response' = Response("updateBookingStatus", 200, "updated")
    /\ UNCHANGED <<vehicles, creq, xreq, raceStart, avail, reviews, rreq, rollup>>

\* ------------------------------------------------------------------------
\* cancelBooking
\* ------------------------------------------------------------------------
\* Booking.findById, ownership check, status check
cancelBookingFind(u, id, reason) ==
    /\ xreq.pc = "idle"
    /\ IF id \notin BookingIds
         THEN /\ response' = Response("cancelBooking", 404, "Booking not found")
              /\ UNCHANGED xreq
       ELSE IF notAuthorized(u, bookings[id])
         THEN /\ response' = Response("cancelBooking", 403,
                                      "Not authorized to cancel this booking")
              /\ UNCHANGED xreq
       ELSE IF bookings[id].status \notin CancellableStatuses
         THEN /\ response' = Response("cancelBooking", 400,
                                      "Booking cannot be cancelled in current status")
              /\ UNCHANGED xreq
       ELSE /\ xreq' = [pc |-> "update", id |-> id, cancellationReason |-> reason]
            /\ response' = NoResponse
    /\ UNCHANGED <<vehicles, bookings, creq, raceStart, avail, reviews, rreq, rollup>>

\* Booking.findByIdAndUpdate(id, {status: 'cancelled', cancellationReason});
\* an undefined cancellationReason is not part of the update
cancelBookingUpdate ==
    /\ xreq.pc = "update"
    /\ bookings' = [bookings EXCEPT
            ![xreq.id].status = "cancelled",
            ![xreq.id].cancellationReason =
                IF xreq.cancellationReason = NoReason THEN @ ELSE xreq.cancellationReason]
    /\ xreq' = IdleCancel
    /\ response' = Response("cancelBooking", 200, "cancelled")
    /\ UNCHANGED <<vehicles, creq, raceStart, avail, reviews, rreq, rollup>>

\* ------------------------------------------------------------------------
\* Vehicle administration (admin only)
\* ------------------------------------------------------------------------
\* Vehicle.findByIdAndUpdate(req.params.id, req.body) with body {availability}
updateVehicle(v, availability) ==
    /\ IF ~vehicles[v].exists
         THEN /\ response' = Response("updateVehicle", 404, "Vehicle not found")
              /\ UNCHANGED vehicles
         ELSE /\ vehicles' = [vehicles EXCEPT ![v].availability = availability]
              /\ response' = Response("updateVehicle", 200, "updated")
    /\ UNCHANGED <<bookings, creq, xreq, raceStart, avail, reviews, rreq, rollup>>

\* Vehicle.findByIdAndDelete(req.params.id)
deleteVehicleCascade(v) ==
    /\ vehicles[v].exists
    /\ vehicles' = [vehicles EXCEPT ![v] = NoVehicle]
    /\ bookings' = SelectSeq(bookings, LAMBDA b : b.vehicleId # v)
    /\ response' = Response("deleteVehicle", 200, "Vehicle deleted successfully")
    /\ UNCHANGED <<creq, xreq, raceStart, avail, reviews, rreq, rollup>>
deleteVehicle(v) ==
    /\ IF ~vehicles[v].exists
         THEN /\ response' = Response("deleteVehicle", 404, "Vehicle not found")
              /\ UNCHANGED vehicles
         ELSE /\ vehicles' = [vehicles EXCEPT ![v] = NoVehicle]
              /\ response' = Response("deleteVehicle", 200, "Vehicle deleted successfully")
    /\ UNCHANGED <<bookings, creq, xreq, raceStart, avail, reviews, rreq, rollup>>

\* ------------------------------------------------------------------------
\* Spec: the booking engine with two createBooking requests in flight; one
\* customer books vehicle v1, cancelBooking carries no reason
\* ------------------------------------------------------------------------
Next ==
    \/ \E p \in CreateProcs, d \in RequestDates :
          createBookingCheck(p, "u1", "v1", d[1], d[2])
    \/ \E p \in CreateProcs : createBookingPreSave(p)
    \/ \E p \in CreateProcs : createBookingInsert(p)
    \/ \E id \in 1..MaxBookings, status \in Statuses : updateBookingStatus(id, status)
    \/ \E u \in Users, id \in 1..MaxBookings : cancelBookingFind(u, id, NoReason)
    \/ cancelBookingUpdate
    \/ \E a \in BOOLEAN : updateVehicle("v1", a)
    \/ deleteVehicle("v1")

Spec == Init /\ [][Next]_vars

\* ------------------------------------------------------------------------
\* SpecCancel: the booking engine with one createBooking request in flight
\* and one pair of dates; cancelBooking with and without a reason
\* ------------------------------------------------------------------------
NextCancel ==
    \/ createBookingCheck("c1", "u1", "v1", 24, 49)
    \/ createBookingPreSave("c1")
    \/ createBookingInsert("c1")
    \/ \E id \in 1..MaxBookings, status \in Statuses : updateBookingStatus(id, status)
    \/ \E u \in Users, id \in 1..MaxBookings, reason \in Reasons :
          cancelBookingFind(u, id, reason)
    \/ cancelBookingUpdate
    \/ \E a \in BOOLEAN : updateVehicle("v1", a)
    \/ deleteVehicle("v1")

SpecCancel == Init /\ [][NextCancel]_vars

\* ------------------------------------------------------------------------
\* SpecOwners: the booking engine with two customers; the body of a
\* createBooking request also carries a userId and a status field
\* ------------------------------------------------------------------------
RequestBodies ==
    [vehicleId : {"v1"}, startDate : {24}, endDate : {49},
     userId : Customers, status : {"pending", "approved"}]

\* createBooking(req, res) up to Booking.create: req.user.id is the caller;
\* vehicleId, startDate and endDate are taken out of req.body, its other
\* fields are not read
createBookingAsBody(p, u, body) ==
    createBookingCheck(p, body.userId, body.vehicleId, body.startDate, body.endDate)
createBooking(p, u, body) ==
    createBookingCheck(p, u, body.vehicleId, body.startDate, body.endDate)

NextOwners ==
    \/ \E u \in Customers, body \in RequestBodies : createBooking("c1", u, body)
    \/ createBookingPreSave("c1")
    \/ createBookingInsert("c1")
    \/ \E id \in 1..MaxBookings, status \in Statuses : updateBookingStatus(id, status)
    \/ \E u \in Users, id \in 1..MaxBookings : cancelBookingFind(u, id, NoReason)
    \/ cancelBookingUpdate
    \/ \E a \in BOOLEAN : updateVehicle("v1", a)
    \/ deleteVehicle("v1")

SpecOwners == Init /\ [][NextOwners]_vars

\* ------------------------------------------------------------------------
\* SpecAvail: Booking.checkAvailability called on every store of at most
\* MaxBookings bookings.  Each such store is one the engine can reach:
\* createBooking stores any valid body as pending while nothing is approved,
\* updateBookingStatus then sets any status.
\* ------------------------------------------------------------------------
StoredBooking(v, d, status) ==
    [userId |-> "u1", vehicleId |-> v, startDate |-> d[1], endDate |-> d[2],
     totalPrice |-> totalPriceOf(d[1], d[2], InitVehicles[v].pricePerDay),
     status |-> status, cancellationReason |-> NoReason]

StoredBookings ==
    {StoredBooking(v, d, status) : v \in VehicleIds, d \in StoredDates, status \in Statuses}

InitAvail ==
    /\ vehicles = InitVehicles
    /\ bookings \in UNION {[1..n -> StoredBookings] : n \in 0..MaxBookings}
    /\ creq = [p \in CreateProcs |-> IdleCreate]
    /\ xreq = IdleCancel
    /\ response = NoResponse
    /\ raceStart = NoRace
    /\ avail = NoProbe
    /\ reviews = <<>>
    /\ rreq = [p \in ReviewProcs |-> IdleReview]
    /\ rollup = [p \in ReviewProcs |-> IdleRollup]

\* Booking.checkAvailability(vehicleId, startDate, endDate, excludeBookingId)
checkAvailabilityCall(v, s, e, excludeBookingId) ==
    /\ ~avail.called
    /\ avail' = [vehicleId |-> v, startDate |-> s, endDate |-> e,
                 excludeBookingId |-> excludeBookingId, called |-> TRUE,
                 result |-> checkAvailability(bookings, v, s, e, excludeBookingId)]
    /\ UNCHANGED <<vehicles, bookings, creq, xreq, response, raceStart, reviews, rreq, rollup>>

NextAvail ==
    \E v \in VehicleIds, d \in StoredDates, x \in 0..MaxBookings :
        checkAvailabilityCall(v, d[1], d[2], x)

SpecAvail == InitAvail /\ [][NextAvail]_vars

\* ------------------------------------------------------------------------
\* Reviews.  averageRating is counted in tenths of a star: 45 is 4.5.
\* ------------------------------------------------------------------------
\* the slot of a review that findByIdAndDelete removed
NoReview == [exists |-> FALSE, userId |-> "", vehicleId |-> "", bookingId |-> NoId,
             rating |-> 0]

\* the _ids of the stored reviews
ReviewIds == {i \in 1..Len(reviews) : reviews[i].exists}

\* the stored reviews of vehicle v
reviewsOf(store, v) ==
    {i \in 1..Len(store) : store[i].exists /\ store[i].vehicleId = v}

\* isInt({ min: 1, max: 5 })
reviewValidation(rating) == rating \in 1..5

\* Booking.findOne({ _id, userId, vehicleId, status: 'completed' })
completedBookingAnyStatus(store, bookingId, userId, vehicleId) ==
    /\ bookingId \in 1..Len(store)
    /\ store[bookingId].userId = userId
    /\ store[bookingId].vehicleId = vehicleId
completedBooking(store, bookingId, userId, vehicleId) ==
    /\ bookingId \in 1..Len(store)
    /\ store[bookingId].userId = userId
    /\ store[bookingId].vehicleId = vehicleId
    /\ store[bookingId].status = "completed"

\* Review.findOne({ userId, bookingId }), and the lookup of the unique index
\* { userId: 1, bookingId: 1 }
existingReview(store, userId, bookingId) ==
    {i \in 1..Len(store) : /\ store[i].exists
                           /\ store[i].userId = userId
                           /\ store[i].bookingId = bookingId}

\* the insert refused by the unique index { userId: 1, bookingId: 1 }
duplicateKeyNever(store, userId, bookingId) == FALSE
duplicateKey(store, userId, bookingId) ==
    existingReview(store, userId, bookingId) # {}

RECURSIVE sumRatings(_, _)
sumRatings(store, ids) ==
    IF ids = {} THEN 0
    ELSE LET i == CHOOSE x \in ids : TRUE
         IN store[i].rating + sumRatings(store, ids \ {i})

\* this.aggregate([{ $match: { vehicleId } }, { $group: ... }])
aggregate(store, v) ==
    IF reviewsOf(store, v) = {} THEN <<>>
    ELSE <<[sum |-> sumRatings(store, reviewsOf(store, v)),
            numRatings |-> Cardinality(reviewsOf(store, v))]>>

\* Math.round(stats[0].avgRating * 10) / 10, in tenths
roundedAverageFloor(stat) == (10 * stat.sum) \div stat.numRatings
roundedAverage(stat) == (20 * stat.sum + stat.numRatings) \div (2 * stat.numRatings)

\* history: a review of vehicle v is written, so the stats that a
\* calcAverageRating call holds for v are no longer those of the collection
written(v) ==
    [q \in ReviewProcs |->
        IF rollup[q].vehicleId = v THEN [rollup[q] EXCEPT !.fresh = FALSE]
        ELSE rollup[q]]

\* a createReview handler between its controller checks and its insert
ReviewInFlight(p) == rreq[p].pc \in {"presave", "insert"}

\* the early returns of createReview: validationResult(req), Booking.findOne,
\* Review.findOne; NoResponse when the handler goes on to Review.create
createReviewRejection(u, body) ==
    IF ~reviewValidation(body.rating)
      THEN Response("createReview", 400, "Validation failed")
    ELSE IF ~completedBooking(bookings, body.bookingId, u, body.vehicleId)
      THEN Response("createReview", 404,
                    "Completed booking not found or does not belong to you")
    ELSE IF existingReview(reviews, u, body.bookingId) # {}
      THEN Response("createReview", 400, "You have already reviewed this booking")
    ELSE NoResponse

\* createReview(req, res) up to Review.create.  Booking.findOne reads only
\* bookings and Review.findOne only reviews, and no step writes both, so the
\* two lookups are one step.
createReview(p, u, body) ==
    /\ rreq[p].pc = "idle"
    /\ rollup[p].pc = "idle"
    /\ Len(reviews) + Cardinality({q \in ReviewProcs : ReviewInFlight(q)}) < MaxReviews
    /\ response' = createReviewRejection(u, body)
    /\ IF response' # NoResponse
         THEN UNCHANGED rreq
         ELSE rreq' = [rreq EXCEPT ![p] =
                          [pc |-> "presave", userId |-> u, vehicleId |-> body.vehicleId,
                           bookingId |-> body.bookingId, rating |-> body.rating]]
    /\ UNCHANGED <<vehicles, bookings, creq, xreq, raceStart, avail, reviews, rollup>>

\* Review.create: the pre('save') hook looks the completed booking up
\* again; its error reaches the catch block of createReview
createReviewPreSave(p) ==
    /\ rreq[p].pc = "presave"
    /\ IF completedBooking(bookings, rreq[p].bookingId, rreq[p].userId, rreq[p].vehicleId)
         THEN /\ rreq' = [rreq EXCEPT ![p].pc = "insert"]
              /\ response' = NoResponse
         ELSE /\ rreq' = [rreq EXCEPT ![p] = IdleReview]
              /\ response' = CaughtResponse("createReview",
                                 "You can only review vehicles from completed bookings",
                                 "Server error while creating review")
    /\ UNCHANGED <<vehicles, bookings, creq, xreq, raceStart, avail, reviews, rollup>>

\* Review.create: the document is inserted unless the unique index refuses
\* it; the post('save') hook then calls calcAverageRating and does not wait
\* for it
createReviewInsert(p) ==
    /\ rreq[p].pc = "insert"
    /\ IF duplicateKey(reviews, rreq[p].userId, rreq[p].bookingId)
         THEN /\ rreq' = [rreq EXCEPT ![p] = IdleReview]
              /\ response' = CaughtResponse("createReview", "E11000 duplicate key error",
                                            "Server error while creating review")
              /\ UNCHANGED <<reviews, rollup>>
         ELSE /\ reviews' = Append(reviews,
                     [exists |-> TRUE, userId |-> rreq[p].userId,
                      vehicleId |-> rreq[p].vehicleId, bookingId |-> rreq[p].bookingId,
                      rating |-> rreq[p].rating])
              /\ rreq' = [rreq EXCEPT ![p] = [IdleReview EXCEPT !.pc = "populate"]]
              /\ rollup' = [written(rreq[p].vehicleId) EXCEPT ![p] =
                               [pc |-> "aggregate", vehicleId |-> rreq[p].vehicleId,
                                stats |-> <<>>, fresh |-> FALSE]]
              /\ response' = NoResponse
    /\ UNCHANGED <<vehicles, bookings, creq, xreq, raceStart, avail>>

\* review.populate twice, then res.status(201)
createReviewRespond(p) ==
    /\ rreq[p].pc = "populate"
    /\ rreq' = [rreq EXCEPT ![p] = IdleReview]
    /\ response' = Response("createReview", 201, "created")
    /\ UNCHANGED <<vehicles, bookings, creq, xreq, raceStart, avail, reviews, rollup>>

\* calcAverageRating: const stats = await this.aggregate(...)
calcAverageRatingAggregate(p) ==
    /\ rollup[p].pc = "aggregate"
    /\ rollup' = [rollup EXCEPT ![p] =
                     [pc |-> "update", vehicleId |-> rollup[p].vehicleId,
                      stats |-> aggregate(reviews, rollup[p].vehicleId),
                      fresh |-> TRUE]]
    /\ response' = NoResponse
    /\ UNCHANGED <<vehicles, bookings, creq, xreq, raceStart, avail, reviews, rreq>>

\* calcAverageRating: Vehicle.findByIdAndUpdate(vehicleId, ...), which
\* changes nothing when the vehicle is gone
calcAverageRatingUpdate(p) ==
    /\ rollup[p].pc = "update"
    /\ LET v == rollup[p].vehicleId
           stats == rollup[p].stats
       IN vehicles' =
            IF ~vehicles[v].exists THEN vehicles
            ELSE IF Len(stats) > 0
              THEN [vehicles EXCEPT ![v].averageRating = roundedAverage(stats[1]),
                                    ![v].totalReviews = stats[1].numRatings]
              ELSE [vehicles EXCEPT ![v].averageRating = 0, ![v].totalReviews = 0]
    /\ rollup' = [rollup EXCEPT ![p] = IdleRollup]
    /\ response' = NoResponse
    /\ UNCHANGED <<bookings, creq, xreq, raceStart, avail, reviews, rreq>>

\* updateReview: Review.findById, then Review.findByIdAndUpdate, which runs
\* no save hook.  One step: the write does not depend on what was read.
updateReview(u, id, rating) ==
    /\ IF ~reviewValidation(rating)
         THEN /\ response' = Response("updateReview", 400, "Validation failed")
              /\ UNCHANGED <<reviews, rollup>>
       ELSE IF id \notin ReviewIds
         THEN /\ response' = Response("updateReview", 404, "Review not found")
              /\ UNCHANGED <<reviews, rollup>>
       ELSE IF reviews[id].userId # u
         THEN /\ response' = Response("updateReview", 403,
                                      "Not authorized to update this review")
              /\ UNCHANGED <<reviews, rollup>>
       ELSE /\ reviews' = [reviews EXCEPT ![id].rating = rating]
            /\ rollup' = written(reviews[id].vehicleId)
            /\ response' = Response("updateReview", 200, "updated")
    /\ UNCHANGED <<vehicles, bookings, creq, xreq, raceStart, avail, rreq>>

\* deleteReview: Review.findById, then Review.findByIdAndDelete, which runs
\* no remove hook.  One step: the write does not depend on what was read.
deleteReview(u, id) ==
    /\ IF id \notin ReviewIds
         THEN /\ response' = Response("deleteReview", 404, "Review not found")
              /\ UNCHANGED <<reviews, rollup>>
       ELSE IF reviews[id].userId # u /\ Role(u) # "admin"
         THEN /\ response' = Response("deleteReview", 403,
                                      "Not authorized to delete this review")
              /\ UNCHANGED <<reviews, rollup>>
       ELSE /\ reviews' = [reviews EXCEPT ![id] = NoReview]
            /\ rollup' = written(reviews[id].vehicleId)
            /\ response' = Response("deleteReview", 200, "Review deleted successfully")
    /\ UNCHANGED <<vehicles, bookings, creq, xreq, raceStart, avail, rreq>>

\* ------------------------------------------------------------------------
\* SpecReview: the review handlers over a store of completed bookings of
\* customer u1 on vehicle v1, one createReview request in flight at a time.
\* The store is one the engine can reach: createBooking stores each booking
\* as pending, updateBookingStatus then completes it.
\* ------------------------------------------------------------------------
RequestRatings == {4, 5}

ReviewBodies == [vehicleId : {"v1"}, bookingId : 1..MaxReviews, rating : RequestRatings]

InitReview ==
    /\ vehicles = InitVehicles
    /\ bookings = [i \in 1..MaxReviews |-> StoredBooking("v1", <<24, 49>>, "completed")]
    /\ creq = [p \in CreateProcs |-> IdleCreate]
    /\ xreq = IdleCancel
    /\ response = NoResponse
    /\ raceStart = NoRace
    /\ avail = NoProbe
    /\ reviews = <<>>
    /\ rreq = [p \in ReviewProcs |-> IdleReview]
    /\ rollup = [p \in ReviewProcs |-> IdleRollup]

NextReview ==
    \/ \E body \in ReviewBodies : createReview("r1", "u1", body)
    \/ createReviewPreSave("r1")
    \/ createReviewInsert("r1")
    \/ createReviewRespond("r1")
    \/ calcAverageRatingAggregate("r1")
    \/ calcAverageRatingUpdate("r1")
    \/ \E id \in 1..MaxReviews, rating \in RequestRatings : updateReview("u1", id, rating)
    \/ \E id \in 1..MaxReviews : deleteReview("u1", id)

SpecReview == InitReview /\ [][NextReview]_vars

\* ------------------------------------------------------------------------
\* SpecEngine: booking, vehicle and review handlers together, from the
\* empty store; customer u1 books vehicle v1 for one pair of dates, and
\* customers u1 and u2 ask to review these bookings with five stars
\* ------------------------------------------------------------------------
EngineBodies == [vehicleId : {"v1"}, bookingId : 1..MaxBookings, rating : {5}]

NextEngine ==
    \/ createBookingCheck("c1", "u1", "v1", 24, 49)
    \/ createBookingPreSave("c1")
    \/ createBookingInsert("c1")
    \/ \E id \in 1..MaxBookings, status \in {"completed", "pending"} :
          updateBookingStatus(id, status)
    \/ \E id \in 1..MaxBookings : cancelBookingFind("u1", id, NoReason)
    \/ cancelBookingUpdate
    \/ \E a \in BOOLEAN : updateVehicle("v1", a)
    \/ deleteVehicle("v1")
    \/ \E u \in Customers, body \in EngineBodies : createReview("r1", u, body)
    \/ createReviewPreSave("r1")
    \/ createReviewInsert("r1")
    \/ createReviewRespond("r1")
    \/ calcAverageRatingAggregate("r1")
    \/ calcAverageRatingUpdate("r1")
    \/ \E id \in 1..MaxReviews : updateReview("u1", id, 5)
    \/ \E id \in 1..MaxReviews : deleteReview("u1", id)

SpecEngine == Init /\ [][NextEngine]_vars

\* ------------------------------------------------------------------------
\* SpecReviewRace: as SpecReview, with two createReview requests in flight
\* and five stars in every body
\* ------------------------------------------------------------------------
RaceBodies == [vehicleId : {"v1"}, bookingId : 1..MaxReviews, rating : {5}]

NextReviewRace ==
    \/ \E p \in ReviewProcs, body \in RaceBodies : createReview(p, "u1", body)
    \/ \E p \in ReviewProcs : createReviewPreSave(p)
    \/ \E p \in ReviewProcs : createReviewInsert(p)
    \/ \E p \in ReviewProcs : createReviewRespond(p)
    \/ \E p \in ReviewProcs : calcAverageRatingAggregate(p)
    \/ \E p \in ReviewProcs : calcAverageRatingUpdate(p)
    \/ \E id \in 1..MaxReviews : updateReview("u1", id, 5)
    \/ \E id \in 1..MaxReviews : deleteReview("u1", id)

SpecReviewRace == InitReview /\ [][NextReviewRace]_vars

\* ------------------------------------------------------------------------
\* Reading bookings.  A page holds more bookings than the store.
\* ------------------------------------------------------------------------
\* a query parameter that is absent or empty
NoParam == ""

\* req.query of getBookings: userId, vehicleId, status
Queries ==
    [userId : Customers \cup {NoParam}, vehicleId : {"v1", NoParam},
     status : {"pending", NoParam}]

\* what a handler sent together with its data
DataResponse(handler, code, data) ==
    [handler |-> handler, code |-> code, message |-> "success", error |-> "none",
     data |-> data]

\* getBookings: the filter built from req.user and req.query
bookingsFilterByQuery(u, query) ==
    [userId |-> query.userId, vehicleId |-> query.vehicleId, status |-> query.status]
bookingsFilter(u, query) ==
    [userId |-> IF Role(u) # "admin" THEN u ELSE query.userId,
     vehicleId |-> query.vehicleId,
     status |-> query.status]

\* Booking.find(filter)
findBookings(store, filter) ==
    {i \in 1..Len(store) :
        /\ filter.userId = NoParam \/ store[i].userId = filter.userId
        /\ filter.vehicleId = NoParam \/ store[i].vehicleId = filter.vehicleId
        /\ filter.status = NoParam \/ store[i].status = filter.status}

\* getBookings(req, res)
getBookings(u, query) ==
    /\ response' = DataResponse("getBookings", 200,
                                findBookings(bookings, bookingsFilter(u, query)))
    /\ UNCHANGED <<vehicles, bookings, creq, xreq, raceStart, avail, reviews, rreq, rollup>>

\* the early returns of getBooking: not found, not the owner and not admin
getBookingRejectionOpen(u, id) ==
    IF id \notin BookingIds
      THEN Response("getBooking", 404, "Booking not found")
    ELSE NoResponse
getBookingRejection(u, id) ==
    IF id \notin BookingIds
      THEN Response("getBooking", 404, "Booking not found")
    ELSE IF Role(u) # "admin" /\ bookings[id].userId # u
      THEN Response("getBooking", 403, "Not authorized to access this booking")
    ELSE NoResponse

\* getBooking(req, res)
getBooking(u, id) ==
    /\ response' = IF getBookingRejection(u, id) # NoResponse
                     THEN getBookingRejection(u, id)
                     ELSE DataResponse("getBooking", 200, {id})
    /\ UNCHANGED <<vehicles, bookings, creq, xreq, raceStart, avail, reviews, rreq, rollup>>

\* ------------------------------------------------------------------------
\* SpecRead: two customers book vehicle v1, an admin sets the status of
\* their bookings, and customers and admin read the bookings
\* ------------------------------------------------------------------------
NextRead ==
    \/ \E u \in Customers : createBookingCheck("c1", u, "v1", 24, 49)
    \/ createBookingPreSave("c1")
    \/ createBookingInsert("c1")
    \/ \E id \in 1..MaxBookings, status \in Statuses : updateBookingStatus(id, status)
    \/ \E u \in Users, query \in Queries : getBookings(u, query)
    \/ \E u \in Users, id \in 1..MaxBookings : getBooking(u, id)

SpecRead == Init /\ [][NextRead]_vars

\* ------------------------------------------------------------------------
\* SpecStatus: as SpecCancel without a cancellation reason; the body of
\* updateBookingStatus may also name a status outside the enum
\* ------------------------------------------------------------------------
RequestStatuses == Statuses \cup {"expired"}

NextStatus ==
    \/ createBookingCheck("c1", "u1", "v1", 24, 49)
    \/ createBookingPreSave("c1")
    \/ createBookingInsert("c1")
    \/ \E id \in 1..MaxBookings, status \in RequestStatuses :
          updateBookingStatus(id, status)
    \/ \E u \in Users, id \in 1..MaxBookings : cancelBookingFind(u, id, NoReason)
    \/ cancelBookingUpdate
    \/ \E a \in BOOLEAN : updateVehicle("v1", a)
    \/ deleteVehicle("v1")

SpecStatus == Init /\ [][NextStatus]_vars

\* ------------------------------------------------------------------------
\* SpecCreateRace: two createReview requests in flight and nothing else, so
\* that every review write starts a calcAverageRating call
\* ------------------------------------------------------------------------
NextCreateRace ==
    \/ \E p \in ReviewProcs, body \in RaceBodies : createReview(p, "u1", body)
    \/ \E p \in ReviewProcs : createReviewPreSave(p)
    \/ \E p \in ReviewProcs : createReviewInsert(p)
    \/ \E p \in ReviewProcs : createReviewRespond(p)
    \/ \E p \in ReviewProcs : calcAverageRatingAggregate(p)
    \/ \E p \in ReviewProcs : calcAverageRatingUpdate(p)

SpecCreateRace == InitReview /\ [][NextCreateRace]_vars

\* ------------------------------------------------------------------------
\* Properties
\* ------------------------------------------------------------------------
Overlap(s1, e1, s2, e2) == s1 < e2 /\ e1 > s2

ConflictMessage == "Vehicle is not available for the selected dates"

\* the booking that a step has just appended to the store
Stored == bookings'[Len(bookings')]

\* C1: no two distinct bookings on the same vehicle that are both approved
\* or active have overlapping intervals, in any reachable state.
C1_NoDoubleBooking ==
    \A i \in BookingIds : \A j \in BookingIds :
        (/\ i # j
         /\ bookings[i].vehicleId = bookings[j].vehicleId
         /\ bookings[i].status \in {"approved", "active"}
         /\ bookings[j].status \in {"approved", "active"})
        => ~Overlap(bookings[i].startDate, bookings[i].endDate,
                    bookings[j].startDate, bookings[j].endDate)

\* C2: once two createBooking requests that were in flight together for the
\* same vehicle and the same dates have both responded, exactly one of them
\* has stored a booking.
C2_ExactlyOneSucceeds ==
    (raceStart # NoRace /\ \A p \in CreateProcs : ~InFlight(p))
        => raceStart = {Len(bookings) - 1}

\* C3: checkAvailability returns true exactly when no stored booking on the
\* vehicle, other than the excluded one, is approved or active and overlaps
\* the asked interval; bookings in any other status have no say.
C3_CheckAvailability ==
    avail.called =>
        (avail.result <=>
            \A i \in BookingIds :
                (/\ bookings[i].vehicleId = avail.vehicleId
                 /\ bookings[i].status \notin {"pending", "rejected", "completed", "cancelled"}
                 /\ (avail.excludeBookingId = NoId \/ i # avail.excludeBookingId))
                => ~Overlap(bookings[i].startDate, bookings[i].endDate,
                            avail.startDate, avail.endDate))

\* the exclusion decided the call: the excluded booking is approved or
\* active and overlaps, a pending booking overlaps too, the result is true
C3_Witness ==
    /\ avail.called
    /\ avail.result
    /\ avail.excludeBookingId \in BookingIds
    /\ \E i \in BookingIds :
          /\ i # avail.excludeBookingId
          /\ bookings[i].vehicleId = avail.vehicleId
          /\ bookings[i].status = "pending"
          /\ Overlap(bookings[i].startDate, bookings[i].endDate,
                     avail.startDate, avail.endDate)
    /\ LET x == bookings[avail.excludeBookingId]
       IN /\ x.vehicleId = avail.vehicleId
          /\ x.status = "active"
          /\ Overlap(x.startDate, x.endDate, avail.startDate, avail.endDate)

\* every approved or active booking on vehicle v ends at or before s, or
\* starts at or after e
OnlyTouching(v, s, e) ==
    \A i \in BookingIds :
        (bookings[i].vehicleId = v /\ bookings[i].status \in {"approved", "active"})
        => (bookings[i].endDate <= s \/ bookings[i].startDate >= e)

\* C4: when the approved and active bookings on a vehicle at most touch the
\* interval [s, e) at an end point, checkAvailability returns true for it
\* and neither check of createBooking rejects the request for its dates.
C4_HalfOpenBoundary ==
    [][/\ \A v \in VehicleIds, d \in StoredDates :
              OnlyTouching(v, d[1], d[2])
                  => checkAvailability(bookings, v, d[1], d[2], NoId)
       /\ \A p \in CreateProcs, u \in Customers, v \in VehicleIds, d \in RequestDates :
              (createBookingCheck(p, u, v, d[1], d[2]) /\ OnlyTouching(v, d[1], d[2]))
                  => response'.message # ConflictMessage
       /\ \A p \in CreateProcs :
              (/\ createBookingPreSave(p)
               /\ OnlyTouching(creq[p].vehicleId, creq[p].startDate, creq[p].endDate))
                  => (creq'[p].pc = "insert" /\ response'.code # 500)
      ]_vars

\* a request for [t, e) has passed both checks and an approved or active
\* booking on its vehicle ends exactly at t
C4_Witness ==
    \E p \in CreateProcs : \E i \in BookingIds :
        /\ creq[p].pc = "insert"
        /\ bookings[i].vehicleId = creq[p].vehicleId
        /\ bookings[i].status \in {"approved", "active"}
        /\ bookings[i].endDate = creq[p].startDate

\* the least number of whole days that cover `hours`
Nights(hours) == CHOOSE n \in 0..hours : n * 24 >= hours /\ (n - 1) * 24 < hours

\* C5: the booking a successful createBooking stores has totalPrice equal to
\* ceil((endDate - startDate) / one day) times the pricePerDay the request
\* read; 72 hours at pricePerDay 100 cost 300.
C5_TotalPrice ==
    [][\A p \in CreateProcs :
          createBookingInsert(p) =>
              /\ Stored.totalPrice =
                     Nights(Stored.endDate - Stored.startDate) * creq[p].pricePerDay
              /\ (Stored.endDate - Stored.startDate = 72 /\ creq[p].pricePerDay = 100)
                     => Stored.totalPrice = 300
      ]_vars

\* a stored booking of three nights at 100 a day
C5_Witness ==
    /\ response = Response("createBooking", 201, "created")
    /\ bookings[Len(bookings)].endDate - bookings[Len(bookings)].startDate = 72
    /\ bookings[Len(bookings)].totalPrice = 300

\* C6 as stated: a booking spanning 25 hours costs 1 x pricePerDay.
C6_TwentyFiveHoursOneDay ==
    [][\A p \in CreateProcs :
          (createBookingInsert(p) /\ creq[p].endDate - creq[p].startDate = 25)
              => Stored.totalPrice = 1 * creq[p].pricePerDay
      ]_vars

\* C6 amended: a booking spanning 25 hours costs 2 x pricePerDay, the
\* ceiling of 25 / 24 days.
C6_TwentyFiveHoursTwoDays ==
    [][\A p \in CreateProcs :
          (createBookingInsert(p) /\ creq[p].endDate - creq[p].startDate = 25)
              => Stored.totalPrice = 2 * creq[p].pricePerDay
      ]_vars

\* the booking just stored spans 25 hours
C6_Witness ==
    /\ response = Response("createBooking", 201, "created")
    /\ bookings[Len(bookings)].endDate - bookings[Len(bookings)].startDate = 25
    /\ bookings[Len(bookings)].totalPrice = 200

\* C7: cancelBooking by the owner or an admin goes on to the update exactly
\* when the status it read is pending or approved, and the update sets the
\* status to cancelled and answers 200; in any other status it answers 400
\* and changes no booking.
C7_CancelOnlyPendingOrApproved ==
    [][/\ \A u \in Users, id \in BookingIds, reason \in Reasons :
              (/\ cancelBookingFind(u, id, reason)
               /\ (u = bookings[id].userId \/ u \in Admins))
              => IF bookings[id].status \in {"pending", "approved"}
                   THEN /\ xreq' = [pc |-> "update", id |-> id,
                                    cancellationReason |-> reason]
                        /\ response' = NoResponse
                        /\ bookings' = bookings
                   ELSE /\ response'.handler = "cancelBooking"
                        /\ response'.code = 400
                        /\ bookings' = bookings
                        /\ xreq' = xreq
       /\ cancelBookingUpdate
              => /\ bookings'[xreq.id].status = "cancelled"
                 /\ response'.handler = "cancelBooking"
                 /\ response'.code = 200
                 /\ \A i \in BookingIds : i # xreq.id => bookings'[i] = bookings[i]
      ]_vars

\* the cancel of a completed booking that carries a reason was just refused
C7_Witness ==
    /\ response.handler = "cancelBooking"
    /\ response.code = 400
    /\ BookingIds # {}
    /\ \A i \in BookingIds :
          /\ bookings[i].status = "completed"
          /\ bookings[i].cancellationReason # NoReason

\* C8: cancelBooking by a caller who is neither the owner nor an admin
\* answers 403 whatever the status of the booking, and for an id that is
\* not stored answers 404; in both cases no booking changes and the handler
\* stops.
C8_CancelNotAuthorized ==
    [][\A u \in Users, id \in 1..MaxBookings, reason \in Reasons :
          cancelBookingFind(u, id, reason) =>
              /\ id \notin BookingIds
                    => /\ response'.handler = "cancelBooking"
                       /\ response'.code = 404
                       /\ bookings' = bookings
                       /\ xreq' = xreq
              /\ (id \in BookingIds /\ u \notin Admins /\ u # bookings[id].userId)
                    => /\ response'.handler = "cancelBooking"
                       /\ response'.code = 403
                       /\ bookings' = bookings
                       /\ xreq' = xreq
      ]_vars

\* a cancel was just refused with 403 and no stored booking is cancellable
C8_Witness ==
    /\ response.handler = "cancelBooking"
    /\ response.code = 403
    /\ BookingIds # {}
    /\ \A i \in BookingIds : bookings[i].status \in {"active", "completed"}

\* C9: a createBooking whose body passes validation answers 404 when the
\* vehicle id does not resolve and 400 when the vehicle is listed with
\* availability false; in both cases the handler stops and the store is as
\* before.
C9_VehicleMissingOrUnavailable ==
    [][\A p \in CreateProcs, u \in Customers, v \in VehicleIds, d \in RequestDates :
          (createBookingCheck(p, u, v, d[1], d[2]) /\ d[1] > Now /\ d[2] > d[1]) =>
              /\ ~vehicles[v].exists
                    => /\ response'.handler = "createBooking"
                       /\ response'.code = 404
                       /\ bookings' = bookings
                       /\ creq' = creq
              /\ (vehicles[v].exists /\ ~vehicles[v].availability)
                    => /\ response'.handler = "createBooking"
                       /\ response'.code = 400
                       /\ bookings' = bookings
                       /\ creq' = creq
      ]_vars

\* a createBooking for the deleted vehicle was just answered with 404
C9_Witness ==
    /\ response = Response("createBooking", 404, "Vehicle not found")
    /\ ~vehicles["v1"].exists
    /\ BookingIds # {}

\* C10: a createBooking rejected for a date conflict, by the controller's
\* check or by the pre-save hook, is answered with 400, never with 500.
C10_ConflictIs400 ==
    (/\ response.handler = "createBooking"
     /\ (response.message = ConflictMessage \/ response.error = ConflictMessage))
    => response.code = 400

TerminalStatuses == {"completed", "rejected", "cancelled"}

\* C11: completed, rejected and cancelled are terminal: a booking whose
\* status is one of them keeps that status through every later step of
\* updateBookingStatus and cancelBooking.
C11_TerminalStatuses ==
    [][\A i \in BookingIds :
          bookings[i].status \in TerminalStatuses
              => bookings'[i].status = bookings[i].status
      ]_vars

\* C12: a booking stored by createBooking has status pending right after
\* the insert, whatever userId and status the request body carries, and
\* its userId is the authenticated caller of the request.
C12_CreatedPendingOwned ==
    [][/\ \A u \in Customers, body \in RequestBodies :
             (createBooking("c1", u, body) /\ InFlight("c1")')
                 => creq'["c1"].userId = u
       /\ \A p \in CreateProcs :
             createBookingInsert(p) =>
                 /\ Len(bookings') = Len(bookings) + 1
                 /\ Stored.status = "pending"
                 /\ Stored.userId = creq[p].userId
      ]_vars

\* createBooking has just stored a booking for customer u2 next to a
\* completed booking of customer u1
C12_Witness ==
    /\ response = Response("createBooking", 201, "created")
    /\ Len(bookings) = 2
    /\ bookings[1].userId = "u1"
    /\ bookings[1].status = "completed"
    /\ bookings[2].userId = "u2"
    /\ bookings[2].status = "pending"

\* C13: every stored booking ends strictly after it starts, in every
\* reachable state: a createBooking whose endDate is not strictly after its
\* startDate, or whose startDate is not strictly after the clock, is
\* answered 400 and neither stores a booking nor goes on to Booking.create;
\* and no step changes the dates of a stored booking.
C13_EndAfterStart ==
    /\ [](\A i \in BookingIds : bookings[i].endDate > bookings[i].startDate)
    /\ [][/\ \A p \in CreateProcs, u \in Customers, v \in VehicleIds, d \in RequestDates :
                (createBookingCheck(p, u, v, d[1], d[2]) /\ ~(d[2] > d[1] /\ d[1] > Now))
                    => /\ response'.handler = "createBooking"
                       /\ response'.code = 400
                       /\ bookings' = bookings
                       /\ creq' = creq
          /\ \A i \in BookingIds :
                /\ i \in DOMAIN bookings'
                /\ bookings'[i].startDate = bookings[i].startDate
                /\ bookings'[i].endDate = bookings[i].endDate
         ]_vars

\* a createBooking whose dates are not valid was just answered 400 while a
\* booking is stored and approved
C13_Witness ==
    /\ response = Response("createBooking", 400, "Validation failed")
    /\ \E i \in BookingIds : bookings[i].status = "approved"

\* C14: bookings are never deleted: a booking id that exists in a state
\* exists after every step of the booking, review and vehicle handlers, and
\* names the booking of the same customer on the same vehicle.
C14_BookingsNeverDeleted ==
    [][\A i \in BookingIds :
          /\ i \in 1..Len(bookings')
          /\ bookings'[i].userId = bookings[i].userId
          /\ bookings'[i].vehicleId = bookings[i].vehicleId
      ]_vars

\* the vehicle was just deleted while its two bookings, one of them
\* reviewed and the other cancelled, are stored
C14_Witness ==
    /\ response = Response("deleteVehicle", 200, "Vehicle deleted successfully")
    /\ Len(bookings) = 2
    /\ \E i \in BookingIds : bookings[i].status = "cancelled"
    /\ \E r \in ReviewIds : bookings[reviews[r].bookingId].status = "completed"

\* C15: in every reachable state at most one review is stored for a pair of
\* userId and bookingId, also when two createReview requests for the pair
\* are both past the lookup of an existing review before either inserts;
\* a createReview for a pair that has a review is rejected, by the
\* controller or at the insert, and stores nothing.
C15_OneReviewPerBooking ==
    /\ [](\A i \in ReviewIds : \A j \in ReviewIds :
              (reviews[i].userId = reviews[j].userId
               /\ reviews[i].bookingId = reviews[j].bookingId) => i = j)
    /\ [][/\ \A p \in ReviewProcs, u \in Customers, body \in RaceBodies :
                (createReview(p, u, body) /\ existingReview(reviews, u, body.bookingId) # {})
                    => /\ response'.handler = "createReview"
                       /\ response'.code >= 400
                       /\ reviews' = reviews
                       /\ rreq' = rreq
          /\ \A p \in ReviewProcs :
                (createReviewInsert(p)
                 /\ existingReview(reviews, rreq[p].userId, rreq[p].bookingId) # {})
                    => /\ response'.handler = "createReview"
                       /\ response'.code >= 400
                       /\ reviews' = reviews
                       /\ rreq'[p] = IdleReview
         ]_vars

\* of two createReview requests for the same booking that were both past
\* the lookup, one has inserted and the other was just refused at its insert
C15_Witness ==
    /\ response.handler = "createReview"
    /\ response.error = "E11000 duplicate key error"
    /\ \E p \in ReviewProcs : rreq[p].pc = "populate"
    /\ Cardinality(ReviewIds) = 1

\* no stored booking of customer u on vehicle v is completed
NoCompletedBooking(u, v) ==
    \A i \in BookingIds :
        ~(/\ bookings[i].userId = u
          /\ bookings[i].vehicleId = v
          /\ bookings[i].status = "completed")

IsRoundedMean(t, store, v) ==
    LET n == Cardinality(reviewsOf(store, v))
        d == 10 * sumRatings(store, reviewsOf(store, v)) - t * n
    IN 2 * (IF d < 0 THEN -d ELSE d) <= n

\* averageRating and totalReviews of vehicle v, in vs, are those of the
\* stored reviews of v: the rounded mean and the count, 0 and 0 for none
RolledUp(vs, store, v) ==
    /\ vs[v].totalReviews = Cardinality(reviewsOf(store, v))
    /\ IF reviewsOf(store, v) = {}
         THEN vs[v].averageRating = 0
         ELSE IsRoundedMean(vs[v].averageRating, store, v)

\* the reviews of the example: ratings 5, 4 and 3 on vehicle v1
ExampleReviews ==
    [i \in 1..3 |-> [exists |-> TRUE, userId |-> "u1", vehicleId |-> "v1",
                     bookingId |-> i, rating |-> 6 - i]]

\* C17: when the calcAverageRating call that a createReview started writes
\* the vehicle, and no review of the vehicle was written since its
\* aggregate ran, the vehicle's averageRating is the mean of the ratings of
\* all stored reviews of the vehicle rounded to one decimal and its
\* totalReviews is their count; ratings 5, 4 and 3 give 4.0 and 3.
C17_RollupAfterCreate ==
    [][/\ \A p \in ReviewProcs :
             (/\ calcAverageRatingUpdate(p)
              /\ rollup[p].fresh
              /\ vehicles[rollup[p].vehicleId].exists)
                 => RolledUp(vehicles', reviews, rollup[p].vehicleId)
       /\ roundedAverage(aggregate(ExampleReviews, "v1")[1]) = 40
       /\ aggregate(ExampleReviews, "v1")[1].numRatings = 3
      ]_vars

\* the rollup of the third review has run: ratings 5, 5 and 4 are stored
\* and the vehicle shows 4.7 and 3
C17_Witness ==
    /\ rollup["r1"].pc = "idle"
    /\ Cardinality(reviewsOf(reviews, "v1")) = 3
    /\ sumRatings(reviews, reviewsOf(reviews, "v1")) = 14
    /\ vehicles["v1"].averageRating = 47
    /\ vehicles["v1"].totalReviews = 3

\* no calcAverageRating call is under way
NoRollup == \A p \in ReviewProcs : rollup[p].pc = "idle"

\* C18: once deleteReview has removed a review of a vehicle and no
\* calcAverageRating call is under way, the vehicle's averageRating and
\* totalReviews are those of the remaining reviews, 0 and 0 when none is left.
C18_RollupAfterDelete ==
    (/\ response = Response("deleteReview", 200, "Review deleted successfully")
     /\ NoRollup
     /\ vehicles["v1"].exists)
        => RolledUp(vehicles, reviews, "v1")

\* C19: once updateReview has written a review of a vehicle and no
\* calcAverageRating call is under way, the vehicle's averageRating is the
\* rounded mean of the current ratings and its totalReviews is the number
\* of reviews.
C19_RollupAfterUpdate ==
    (/\ response = Response("updateReview", 200, "updated")
     /\ NoRollup
     /\ vehicles["v1"].exists)
        => RolledUp(vehicles, reviews, "v1")

\* C20: the rollup is atomic with the review write that triggers it: a step
\* that inserts or deletes a review of a vehicle whose averageRating and
\* totalReviews were those of its reviews leaves them those of its reviews.
C20_RollupAtomic ==
    [][\A v \in VehicleIds :
          (/\ reviewsOf(reviews', v) # reviewsOf(reviews, v)
           /\ vehicles[v].exists
           /\ RolledUp(vehicles, reviews, v))
              => RolledUp(vehicles', reviews', v)
      ]_vars

\* C21: getBookings called by a customer returns bookings of that customer
\* only, and the same bookings whatever userId the query names: those of
\* the caller that match the vehicleId and status parameters.  The userId
\* parameter filters only for an admin.
C21_OwnBookingsOnly ==
    [][\A u \in Users, query \in Queries :
          getBookings(u, query) =>
              /\ response'.code = 200
              /\ u \in Customers =>
                    /\ \A i \in response'.data : bookings[i].userId = u
                    /\ response'.data =
                          {i \in BookingIds :
                              /\ bookings[i].userId = u
                              /\ query.vehicleId # NoParam
                                    => bookings[i].vehicleId = query.vehicleId
                              /\ query.status # NoParam
                                    => bookings[i].status = query.status}
              /\ (u \in Admins /\ query.userId # NoParam) =>
                    \A i \in response'.data : bookings[i].userId = query.userId
      ]_vars

\* getBookings has just answered a customer with one booking while a
\* booking of the other customer is stored
C21_Witness ==
    /\ response.handler = "getBookings"
    /\ Len(bookings) = 2
    /\ bookings[1].userId # bookings[2].userId
    /\ Cardinality(response.data) = 1

\* C22: getBooking answers 200 with the booking only to its owner or an
\* admin, 403 to any other caller and 404 for an id that is not stored; it
\* changes no booking.
C22_GetBookingOwnerOrAdmin ==
    [][\A u \in Users, id \in 1..MaxBookings :
          getBooking(u, id) =>
              /\ bookings' = bookings
              /\ response'.handler = "getBooking"
              /\ id \notin BookingIds => response'.code = 404
              /\ id \in BookingIds =>
                    IF u \in Admins \/ bookings[id].userId = u
                      THEN response'.code = 200 /\ response'.data = {id}
                      ELSE response'.code = 403
      ]_vars

\* getBooking has just refused, with 403, a customer who owns another
\* stored booking
C22_Witness ==
    /\ response = Response("getBooking", 403, "Not authorized to access this booking")
    /\ Len(bookings) = 2
    /\ bookings[1].userId # bookings[2].userId

\* C23: updateBookingStatus writes any status of the enum over whatever
\* status the booking has, without a look at the transition table or at
\* the other bookings of the vehicle, and changes nothing else; a status
\* outside the enum is answered 400 and a missing booking 404, both with
\* the store as before.
C23_AnyStatusOfTheEnum ==
    [][\A id \in 1..MaxBookings, status \in RequestStatuses :
          updateBookingStatus(id, status) =>
              /\ response'.handler = "updateBookingStatus"
              /\ status \notin Statuses
                    => response'.code = 400 /\ bookings' = bookings
              /\ (status \in Statuses /\ id \notin BookingIds)
                    => response'.code = 404 /\ bookings' = bookings
              /\ (status \in Statuses /\ id \in BookingIds)
                    => /\ response'.code = 200
                       /\ bookings' = [bookings EXCEPT ![id].status = status]
      ]_vars

\* updateBookingStatus has just approved a booking on the dates of another
\* approved booking of the vehicle
C23_Witness ==
    /\ response = Response("updateBookingStatus", 200, "updated")
    /\ Len(bookings) = 2
    /\ bookings[1].status = "approved"
    /\ bookings[2].status = "approved"
    /\ Overlap(bookings[1].startDate, bookings[1].endDate,
               bookings[2].startDate, bookings[2].endDate)

\* C24: whatever updateBookingStatus does between the two steps of a
\* cancelBooking request, the status that the request replaces with
\* cancelled is pending or approved at the moment of its write.
C24_CancelOverwritesCancellable ==
    [][cancelBookingUpdate => bookings[xreq.id].status \in {"pending", "approved"}]_vars

\* C25: once no createReview request and no calcAverageRating call is under
\* way, the vehicle's totalReviews is the number of its stored reviews and
\* its averageRating their rounded mean, however the aggregates and the
\* vehicle writes of the calls were interleaved.
C25_RollupConverges ==
    (/\ \A p \in ReviewProcs : rreq[p].pc = "idle"
     /\ NoRollup)
        => RolledUp(vehicles, reviews, "v1")

\* C26: in every reachable state the booking of every stored review is
\* stored, is a booking of the review's customer on the review's vehicle,
\* and is completed.
C26_ReviewedBookingCompleted ==
    \A r \in ReviewIds :
        completedBooking(bookings, reviews[r].bookingId, reviews[r].userId,
                         reviews[r].vehicleId)

\* C27: in every reachable state the vehicle of every stored booking and of
\* every stored review is in the store, and no step removes a vehicle that
\* has a pending, approved or active booking.
C27_ReferentialIntegrity ==
    /\ [](/\ \A i \in BookingIds : vehicles[bookings[i].vehicleId].exists
          /\ \A r \in ReviewIds : vehicles[reviews[r].vehicleId].exists)
    /\ [][\A v \in VehicleIds :
             (vehicles[v].exists /\ ~vehicles'[v].exists)
                 => \A i \in BookingIds :
                       bookings[i].vehicleId = v
                           => bookings[i].status \notin {"pending", "approved", "active"}
         ]_vars

====
